---------------------------- MODULE Spec2Model ----------------------------
(***************************************************************************)
(* Model of the two ESP32-CAM still-JPEG pipelines of this repository:     *)
(*                                                                         *)
(*   - the recorder, src/esp32_capture_to_video.py (fetch_jpeg, main):     *)
(*     a sequential loop that writes total_frames frames at a fixed step,  *)
(*     repeating the last good frame when a fetch fails;                   *)
(*   - the live viewer, src/Esp32/fast_ipcam_still_stream.py (fetcher,     *)
(*     main): a fetcher thread that paces itself, drains a one-slot queue  *)
(*     and inserts the newest frame, and a consumer loop that takes from   *)
(*     the queue with a timeout.                                           *)
(*                                                                         *)
(* Time is discrete.  The recorder's clock (time.perf_counter) counts half *)
(* seconds; the live fetcher's clock (time.time) counts milliseconds.      *)
(* time.sleep(x) is modelled as sleeping exactly x.                        *)
(***************************************************************************)
EXTENDS Integers, Sequences, FiniteSets, TLC

Max(a, b) == IF a >= b THEN a ELSE b
Min(a, b) == IF a <= b THEN a ELSE b

None == [kind |-> "none"]

(***************************************************************************)
(* Bounds of the exploration.                                              *)
(***************************************************************************)
\* SpecLive: the fetcher starts at most MaxLiveAttempts GETs and decodes at most
\* MaxLiveFrames frames
MaxLiveAttempts == 4
MaxLiveFrames == 3
\* SpecPacer: the same, for the long run
MaxPacerAttempts == 12
MaxPacerFrames == 1
\* the recorder's --seconds ranges over 0 .. MaxHalfSeconds half seconds
MaxHalfSeconds == 5

(***************************************************************************)
(*                            THE RECORDER                                 *)
(***************************************************************************)
VARIABLES
    rpc,            \* position of main(): fetch_first, size, open, loop, done, crashed
    a_fps,          \* args.fps (frames per second)
    a_seconds,      \* args.seconds, in half seconds
    a_resize,       \* args.resize, a sequence of characters
    first,          \* the pre-fetched first frame
    frame_size,     \* <<width, height>> the writer is opened with
    frame_to_write,
    last_good,
    writer,         \* none | open | failed | released  (cv2.VideoWriter)
    written,        \* the frames handed to writer.write, in order
    total_frames,
    loop_i,         \* the for loop's i
    start,
    next_tick,
    perf,           \* time.perf_counter(), in half seconds
    elapsed,        \* the elapsed time main() reports, -1 before it does
    diag,           \* the diagnostic main() printed: none | first_fetch | resize | writer | traceback
    fetched,        \* history: the result of each fetch_jpeg call, in order
    durs            \* history: the duration of each loop tick's fetch and write

recVars == <<rpc, a_fps, a_seconds, a_resize, first, frame_size, frame_to_write,
             last_good, writer, written, total_frames, loop_i, start, next_tick,
             perf, elapsed, diag, fetched, durs>>

VARIABLES
    target_fps,     \* args.target_fps, in tenths of a frame per second
    q,              \* the queue.Queue between fetcher and main, oldest first
    stop_evt,       \* the threading.Event
    fpc,            \* position of fetcher(): loop, pace, fetch, drain, put, backoff, stopped
    period,         \* fetcher's period, in ms
    t_next,         \* fetcher's t_next, in ms
    backoff,        \* fetcher's backoff, in ms
    f_frame,        \* fetcher's frame: a frame number, 0 for None
    clock,          \* time.time(), in ms
    cpc,            \* position of main(): get, key, finally, join, done
    m_frame,        \* main's frame: a frame number, 0 for None
    key,            \* main's key: q, esc, other (any other key, or none pressed)
    attempts,       \* history: the GETs started
    lastDecoded,    \* history: the number of the newest decoded frame
    lastPut,        \* history: the number of the newest frame put in the queue
    putsSinceGet,   \* history: the puts since main's last get
    putsAtGet,      \* history: the puts between main's last two gets
    putAtGet,       \* history: lastPut when main's last get returned
    decodedAtGet,   \* history: lastDecoded when main's last get returned
    publishingAtGet,\* history: whether the fetcher was between decode and put then
    prevGot,        \* history: the newest frame main's earlier gets returned, 0 for none
    stopAt,         \* history: the clock when stop_evt was set, -1 before
    paced,          \* history: whether the fetcher slept for pacing since its last GET
    fails,          \* history: the failed fetches since the last decoded frame
    lastSleep,      \* history: the length of the last backoff sleep, in ms
    starts          \* history: when the latest attempts began, since the last failure

\* the arguments, which nothing changes
argVars == <<target_fps, period>>
\* what main's last get saw, which only main's get changes
getVars == <<putsAtGet, putAtGet, decodedAtGet, publishingAtGet, prevGot>>
\* what only main's key handling and its finally block change
quitVars == <<key, stopAt>>

liveVars == <<argVars, getVars, quitVars, paced, q, stop_evt, fpc, t_next, backoff, f_frame, clock,
              cpc, m_frame, attempts, lastDecoded, lastPut, putsSinceGet, fails,
              lastSleep, starts>>

\* What one GET and decode can do (requests.get, raise_for_status, cv2.imdecode).
\*   ok           a 2xx response whose body decodes
\*   transport    requests.get raises ConnectionError   (a RequestException)
\*   timeout      requests.get raises Timeout           (a RequestException)
\*   status       raise_for_status raises HTTPError     (a RequestException)
\*   decode_null  cv2.imdecode returns None (the body is not a JPEG)
\*   decode_raise cv2.imdecode raises cv2.error (an empty body)
FetchOutcomes == {"ok", "transport", "timeout", "status", "decode_null", "decode_raise"}

\* The frame sizes <<width, height>> the camera may deliver.
CamSizes == {<<2, 1>>, <<4, 2>>}

Frame(id, size) == [kind |-> "frame", id |-> id, size |-> size]
Raised == [kind |-> "raise"]

\* fetch_jpeg: the decoded frame, None on a RequestException or a null decode;
\* any other exception is not caught and leaves the function.
fetch_jpeg(outcome, id, size) ==
    IF outcome = "ok" THEN Frame(id, size)
    ELSE IF outcome \in {"transport", "timeout", "status", "decode_null"} THEN None
    ELSE Raised

\* cv2.resize(frame, size): the same picture at another size.
resize(frame, size) == [frame EXCEPT !.size = size]

\* int(round(x)) for x = num/den >= 0: Python 3 rounds halves to even.
RoundHalfEven(num, den) ==
    LET quo == num \div den
        rem == num % den
    IN  IF 2 * rem < den THEN quo
        ELSE IF 2 * rem > den THEN quo + 1
        ELSE IF quo % 2 = 0 THEN quo ELSE quo + 1

\* 1.0 / args.fps, in half seconds
FrameInterval(fps) == 2 \div fps

\* ---- args.resize.lower().split("x"), int(w_str), int(h_str)
Lower(c) == IF c = "X" THEN "x" ELSE c

DigitValue(c) ==
    CASE c = "0" -> 0 [] c = "1" -> 1 [] c = "2" -> 2 [] c = "3" -> 3
      [] c = "4" -> 4 [] OTHER -> -1

RECURSIVE SplitX(_)
\* s.split("x"): the pieces between the separators, empty pieces included
SplitX(s) ==
    IF \A k \in DOMAIN s : s[k] # "x" THEN <<s>>
    ELSE LET p == CHOOSE k \in DOMAIN s :
                      s[k] = "x" /\ \A m \in 1..(k - 1) : s[m] # "x"
         IN  <<SubSeq(s, 1, p - 1)>> \o SplitX(SubSeq(s, p + 1, Len(s)))

RECURSIVE ToInt(_)
\* int(str) of a sequence of decimal digits; -1 stands for ValueError
ToInt(s) ==
    IF s = <<>> THEN -1
    ELSE IF DigitValue(s[Len(s)]) < 0 THEN -1
    ELSE IF Len(s) = 1 THEN DigitValue(s[1])
    ELSE LET hi == ToInt(SubSeq(s, 1, Len(s) - 1))
         IN  IF hi < 0 THEN -1 ELSE 10 * hi + DigitValue(s[Len(s)])

\* <<out_w, out_h>>, or <<>> when the try block raises
ParseResize(s) ==
    LET parts == SplitX([k \in DOMAIN s |-> Lower(s[k])])
    IN  IF Len(parts) # 2 THEN <<>>
        ELSE IF ToInt(parts[1]) < 0 \/ ToInt(parts[2]) < 0 THEN <<>>
        ELSE <<ToInt(parts[1]), ToInt(parts[2])>>

ResizeArgs == { <<>>, <<"2", "x", "1">>, <<"4", "X", "2">>, <<"2", "1">>, <<"x", "2">> }

\* the durations, in half seconds, one tick's fetch and write may take
TickDurs == {0, 1, 3}

\* the state when main() is entered with the given arguments
RecStart(fps, seconds, resize_arg) ==
    /\ rpc = "fetch_first"
    /\ a_fps = fps
    /\ a_seconds = seconds
    /\ a_resize = resize_arg
    /\ first = None
    /\ frame_size = <<>>
    /\ frame_to_write = None
    /\ last_good = None
    /\ writer = "none"
    /\ written = <<>>
    /\ total_frames = 0
    /\ loop_i = 0
    /\ start = 0
    /\ next_tick = 0
    /\ perf = 7
    /\ elapsed = -1
    /\ diag = "none"
    /\ fetched = <<>>
    /\ durs = <<>>

R_FetchFirstRetry ==
    /\ rpc = "fetch_first"
    /\ \E outcome \in FetchOutcomes, size \in CamSizes :
          LET r == fetch_jpeg(outcome, Len(fetched), size) IN
          /\ fetched' = Append(fetched, r)
          /\ IF r.kind = "raise"
                THEN /\ rpc' = "crashed"
                     /\ diag' = "traceback"
                     /\ first' = first
             ELSE IF r = None
                THEN /\ rpc' = IF Len(fetched) = 0 THEN "fetch_first" ELSE "done"
                     /\ diag' = "first_fetch"
                     /\ first' = first
             ELSE /\ rpc' = "size"
                  /\ diag' = diag
                  /\ first' = r
    /\ UNCHANGED <<a_fps, a_seconds, a_resize, frame_size, frame_to_write, last_good,
                   writer, written, total_frames, loop_i, start, next_tick, perf,
                   elapsed, durs>>
    /\ UNCHANGED liveVars

\* main, lines 49-54: the first fetch
R_FetchFirst ==
    /\ rpc = "fetch_first"
    /\ \E outcome \in FetchOutcomes, size \in CamSizes :
          LET r == fetch_jpeg(outcome, Len(fetched), size) IN
          /\ fetched' = Append(fetched, r)
          /\ IF r.kind = "raise"
                THEN /\ rpc' = "crashed"
                     /\ diag' = "traceback"
                     /\ first' = first
             ELSE IF r = None
                THEN /\ rpc' = "done"
                     /\ diag' = "first_fetch"
                     /\ first' = first
             ELSE /\ rpc' = "size"
                  /\ diag' = diag
                  /\ first' = r
    /\ UNCHANGED <<a_fps, a_seconds, a_resize, frame_size, frame_to_write, last_good,
                   writer, written, total_frames, loop_i, start, next_tick, perf,
                   elapsed, durs>>
    /\ UNCHANGED liveVars

\* main, lines 56-69: the output size
R_DetermineSize ==
    /\ rpc = "size"
    /\ IF a_resize # <<>>
          THEN IF ParseResize(a_resize) = <<>>
                  THEN /\ rpc' = "done"
                       /\ diag' = "resize"
                       /\ UNCHANGED <<frame_size, frame_to_write>>
                  ELSE /\ frame_size' = ParseResize(a_resize)
                       /\ frame_to_write' = resize(first, ParseResize(a_resize))
                       /\ rpc' = "open"
                       /\ diag' = diag
          ELSE /\ frame_size' = first.size
               /\ frame_to_write' = first
               /\ rpc' = "open"
               /\ diag' = diag
    /\ UNCHANGED <<a_fps, a_seconds, a_resize, first, last_good, writer, written,
                   total_frames, loop_i, start, next_tick, perf, elapsed, fetched, durs>>
    /\ UNCHANGED liveVars

\* main, lines 71-93: open the writer, start the schedule, write frame 0
R_OpenWriter ==
    /\ rpc = "open"
    /\ \E isOpened \in BOOLEAN :
          IF ~isOpened
             THEN /\ writer' = "failed"
                  /\ diag' = "writer"
                  /\ rpc' = "done"
                  /\ UNCHANGED <<total_frames, start, next_tick, last_good, written, loop_i>>
             ELSE /\ writer' = "open"
                  /\ diag' = diag
                  /\ total_frames' = RoundHalfEven(a_seconds * a_fps, 2)
                  /\ start' = perf
                  /\ next_tick' = perf
                  /\ last_good' = frame_to_write
                  /\ written' = Append(written, frame_to_write)
                  /\ loop_i' = 1
                  /\ rpc' = "loop"
    /\ UNCHANGED <<a_fps, a_seconds, a_resize, first, frame_size, frame_to_write,
                   perf, elapsed, fetched, durs>>
    /\ UNCHANGED liveVars

\* main, lines 95-122: one iteration of the timing loop
R_TickDrift ==
    /\ rpc = "loop"
    /\ loop_i < total_frames
    /\ \E outcome \in FetchOutcomes, size \in CamSizes, d \in TickDurs :
          LET r == fetch_jpeg(outcome, Len(fetched), size)
              tick == perf + FrameInterval(a_fps)
              chosen == IF r = None THEN last_good
                        ELSE IF frame_size # r.size THEN resize(r, frame_size)
                        ELSE r
              after == perf + d
          IN
          /\ fetched' = Append(fetched, r)
          /\ next_tick' = tick
          /\ IF r.kind = "raise"
                THEN /\ rpc' = "crashed"
                     /\ diag' = "traceback"
                     /\ UNCHANGED <<frame_to_write, last_good, written, loop_i, perf, durs>>
                ELSE /\ frame_to_write' = chosen
                     /\ last_good' = IF r = None THEN last_good ELSE chosen
                     /\ written' = Append(written, chosen)
                     /\ durs' = Append(durs, d)
                     /\ perf' = IF tick - after > 0 THEN tick ELSE after
                     /\ loop_i' = loop_i + 1
                     /\ UNCHANGED <<rpc, diag>>
    /\ UNCHANGED <<a_fps, a_seconds, a_resize, first, frame_size, writer,
                   total_frames, start, elapsed>>
    /\ UNCHANGED liveVars

R_TickNoFreeze ==
    /\ rpc = "loop"
    /\ loop_i < total_frames
    /\ \E outcome \in FetchOutcomes, size \in CamSizes, d \in TickDurs :
          LET r == fetch_jpeg(outcome, Len(fetched), size)
              tick == next_tick + FrameInterval(a_fps)
              chosen == IF r = None THEN first
                        ELSE IF frame_size # r.size THEN resize(r, frame_size)
                        ELSE r
              after == perf + d
          IN
          /\ fetched' = Append(fetched, r)
          /\ next_tick' = tick
          /\ IF r.kind = "raise"
                THEN /\ rpc' = "crashed"
                     /\ diag' = "traceback"
                     /\ UNCHANGED <<frame_to_write, last_good, written, loop_i, perf, durs>>
                ELSE /\ frame_to_write' = chosen
                     /\ last_good' = IF r = None THEN last_good ELSE chosen
                     /\ written' = Append(written, chosen)
                     /\ durs' = Append(durs, d)
                     /\ perf' = IF tick - after > 0 THEN tick ELSE after
                     /\ loop_i' = loop_i + 1
                     /\ UNCHANGED <<rpc, diag>>
    /\ UNCHANGED <<a_fps, a_seconds, a_resize, first, frame_size, writer,
                   total_frames, start, elapsed>>
    /\ UNCHANGED liveVars

R_Tick ==
    /\ rpc = "loop"
    /\ loop_i < total_frames
    /\ \E outcome \in FetchOutcomes, size \in CamSizes, d \in TickDurs :
          LET r == fetch_jpeg(outcome, Len(fetched), size)
              tick == next_tick + FrameInterval(a_fps)
              chosen == IF r = None THEN last_good
                        ELSE IF frame_size # r.size THEN resize(r, frame_size)
                        ELSE r
              after == perf + d
          IN
          /\ fetched' = Append(fetched, r)
          /\ next_tick' = tick
          /\ IF r.kind = "raise"
                THEN /\ rpc' = "crashed"
                     /\ diag' = "traceback"
                     /\ UNCHANGED <<frame_to_write, last_good, written, loop_i, perf, durs>>
                ELSE /\ frame_to_write' = chosen
                     /\ last_good' = IF r = None THEN last_good ELSE chosen
                     /\ written' = Append(written, chosen)
                     /\ durs' = Append(durs, d)
                     /\ perf' = IF tick - after > 0 THEN tick ELSE after
                     /\ loop_i' = loop_i + 1
                     /\ UNCHANGED <<rpc, diag>>
    /\ UNCHANGED <<a_fps, a_seconds, a_resize, first, frame_size, writer,
                   total_frames, start, elapsed>>
    /\ UNCHANGED liveVars

\* main, lines 125-127: release the writer and report
R_Release ==
    /\ rpc = "loop"
    /\ loop_i >= total_frames
    /\ writer' = "released"
    /\ elapsed' = perf - start
    /\ rpc' = "done"
    /\ UNCHANGED <<a_fps, a_seconds, a_resize, first, frame_size, frame_to_write,
                   last_good, written, total_frames, loop_i, start, next_tick, perf,
                   diag, fetched, durs>>
    /\ UNCHANGED liveVars

(***************************************************************************)
(*                           THE LIVE VIEWER                               *)
(***************************************************************************)
\* queue.Queue(maxsize=1)
maxsize == 1
\* time.sleep(min(0.002, ...)), backoff + 0.05, min(0.5, ...): in ms
PaceQuantum == 2
BackoffStep == 50
BackoffCap == 500

\* 1.0 / max(0.1, target_fps), in ms, for target_fps in tenths
Period(fps10) == 10000 \div Max(1, fps10)

\* the values of --target_fps explored, in tenths: 250 and 125 frames per second
TargetFps == {2500, 1250}

\* how long one GET and decode may take, in ms
FetchDurs == {1, 12}

\* the fetcher is a daemon thread: it runs until main() returns
Alive == cpc # "done"

KeepLast(s, n) == IF Len(s) <= n THEN s ELSE SubSeq(s, Len(s) - n + 1, Len(s))

\* the state when main() has started the fetcher thread
LiveStart(fps10) ==
    /\ target_fps = fps10
    /\ q = <<>>
    /\ stop_evt = FALSE
    /\ fpc = "loop"
    /\ period = Period(fps10)
    /\ clock = 0
    /\ t_next = 0
    /\ backoff = 0
    /\ f_frame = 0
    /\ cpc = "get"
    /\ m_frame = 0
    /\ attempts = 0
    /\ lastDecoded = 0
    /\ lastPut = 0
    /\ putsSinceGet = 0
    /\ putsAtGet = 0
    /\ putAtGet = 0
    /\ decodedAtGet = 0
    /\ publishingAtGet = FALSE
    /\ prevGot = 0
    /\ key = "other"
    /\ stopAt = -1
    /\ paced = FALSE
    /\ fails = 0
    /\ lastSleep = 0
    /\ starts = <<>>

\* fetcher, lines 36-42: the loop test, the pacing test, the advance of t_next
F_CheckResync(maxAttempts) ==
    /\ Alive
    /\ fpc = "loop"
    /\ IF stop_evt
          THEN /\ fpc' = "stopped"
               /\ UNCHANGED <<t_next, attempts, starts>>
       ELSE IF clock < t_next
          THEN /\ fpc' = "pace"
               /\ UNCHANGED <<t_next, attempts, starts>>
       ELSE /\ attempts < maxAttempts
            /\ t_next' = clock + period
            /\ attempts' = attempts + 1
            /\ starts' = KeepLast(Append(starts, clock), 3)
            /\ fpc' = "fetch"
    /\ UNCHANGED <<argVars, getVars, quitVars, paced, q, stop_evt, backoff, f_frame, clock, cpc, m_frame,
                   lastDecoded, lastPut, putsSinceGet, fails, lastSleep>>
    /\ UNCHANGED recVars

F_Check(maxAttempts) ==
    /\ Alive
    /\ fpc = "loop"
    /\ IF stop_evt
          THEN /\ fpc' = "stopped"
               /\ UNCHANGED <<t_next, attempts, starts>>
       ELSE IF clock < t_next
          THEN /\ fpc' = "pace"
               /\ UNCHANGED <<t_next, attempts, starts>>
       ELSE /\ attempts < maxAttempts
            /\ t_next' = t_next + period
            /\ attempts' = attempts + 1
            /\ starts' = KeepLast(Append(starts, clock), 3)
            /\ fpc' = "fetch"
    /\ UNCHANGED <<argVars, getVars, quitVars, paced, q, stop_evt, backoff, f_frame, clock, cpc, m_frame,
                   lastDecoded, lastPut, putsSinceGet, fails, lastSleep>>
    /\ UNCHANGED recVars

\* fetcher, lines 40-41: time.sleep(min(0.002, t_next - now)); continue
F_Pace ==
    /\ Alive
    /\ fpc = "pace"
    /\ clock' = clock + Min(PaceQuantum, t_next - clock)
    /\ paced' = TRUE
    /\ fpc' = "loop"
    /\ UNCHANGED <<argVars, getVars, quitVars, q, stop_evt, t_next, backoff, f_frame, cpc, m_frame,
                   attempts, lastDecoded, lastPut, putsSinceGet, fails, lastSleep,
                   starts>>
    /\ UNCHANGED recVars

\* fetcher, lines 44-50 and 61-63: the GET and the decode; any exception is
\* caught by "except Exception", which grows backoff before it sleeps
F_FetchGiveUp(maxFrames) ==
    /\ Alive
    /\ fpc = "fetch"
    /\ \E outcome \in FetchOutcomes, d \in FetchDurs :
          /\ clock' = clock + d
          /\ paced' = FALSE
          /\ IF outcome = "ok"
                THEN /\ lastDecoded < maxFrames
                     /\ f_frame' = lastDecoded + 1
                     /\ lastDecoded' = lastDecoded + 1
                     /\ fails' = 0
                     /\ fpc' = "drain"
                     /\ UNCHANGED <<backoff, starts>>
                ELSE /\ f_frame' = IF outcome = "decode_null" THEN 0 ELSE f_frame
                     /\ backoff' = Min(BackoffCap, backoff + BackoffStep)
                     /\ fails' = fails + 1
                     /\ starts' = <<>>
                     /\ fpc' = IF fails + 1 >= 3 THEN "stopped" ELSE "backoff"
                     /\ UNCHANGED lastDecoded
    /\ UNCHANGED <<argVars, getVars, quitVars, q, stop_evt, t_next, cpc, m_frame, attempts,
                   lastPut, putsSinceGet, lastSleep>>
    /\ UNCHANGED recVars

F_FetchDrainFirst(maxFrames) ==
    /\ Alive
    /\ fpc = "fetch"
    /\ \E outcome \in FetchOutcomes, d \in FetchDurs :
          /\ clock' = clock + d
          /\ paced' = FALSE
          /\ IF outcome = "ok"
                THEN /\ lastDecoded < maxFrames
                     /\ f_frame' = lastDecoded + 1
                     /\ lastDecoded' = lastDecoded + 1
                     /\ fails' = 0
                     /\ fpc' = "drain"
                     /\ UNCHANGED <<backoff, starts, q>>
                ELSE /\ f_frame' = IF outcome = "decode_null" THEN 0 ELSE f_frame
                     /\ q' = <<>>
                     /\ backoff' = Min(BackoffCap, backoff + BackoffStep)
                     /\ fails' = fails + 1
                     /\ starts' = <<>>
                     /\ fpc' = "backoff"
                     /\ UNCHANGED lastDecoded
    /\ UNCHANGED <<argVars, getVars, quitVars, stop_evt, t_next, cpc, m_frame, attempts,
                   lastPut, putsSinceGet, lastSleep>>
    /\ UNCHANGED recVars

F_Fetch(maxFrames) ==
    /\ Alive
    /\ fpc = "fetch"
    /\ \E outcome \in FetchOutcomes, d \in FetchDurs :
          /\ clock' = clock + d
          /\ paced' = FALSE
          /\ IF outcome = "ok"
                THEN /\ lastDecoded < maxFrames
                     /\ f_frame' = lastDecoded + 1
                     /\ lastDecoded' = lastDecoded + 1
                     /\ fails' = 0
                     /\ fpc' = "drain"
                     /\ UNCHANGED <<backoff, starts>>
                ELSE /\ f_frame' = IF outcome = "decode_null" THEN 0 ELSE f_frame
                     /\ backoff' = Min(BackoffCap, backoff + BackoffStep)
                     /\ fails' = fails + 1
                     /\ starts' = <<>>
                     /\ fpc' = "backoff"
                     /\ UNCHANGED lastDecoded
    /\ UNCHANGED <<argVars, getVars, quitVars, q, stop_evt, t_next, cpc, m_frame, attempts,
                   lastPut, putsSinceGet, lastSleep>>
    /\ UNCHANGED recVars

\* fetcher, lines 53-58: one turn of "while True: out_q.get_nowait()"
F_DrainSkip ==
    /\ Alive
    /\ fpc = "drain"
    /\ q' = q
    /\ fpc' = "put"
    /\ UNCHANGED <<argVars, getVars, quitVars, paced, stop_evt, t_next, backoff, f_frame, clock, cpc,
                   m_frame, attempts, lastDecoded, lastPut, putsSinceGet, fails,
                   lastSleep, starts>>
    /\ UNCHANGED recVars

F_Drain ==
    /\ Alive
    /\ fpc = "drain"
    /\ IF q # <<>>
          THEN /\ q' = Tail(q)
               /\ fpc' = "drain"
          ELSE /\ q' = q
               /\ fpc' = "put"
    /\ UNCHANGED <<argVars, getVars, quitVars, paced, stop_evt, t_next, backoff, f_frame, clock, cpc,
                   m_frame, attempts, lastDecoded, lastPut, putsSinceGet, fails,
                   lastSleep, starts>>
    /\ UNCHANGED recVars

\* fetcher, lines 59-63: out_q.put_nowait(frame); backoff = 0.0 -- or queue.Full,
\* which "except Exception" treats like a failed fetch
F_PutNoReset ==
    /\ Alive
    /\ fpc = "put"
    /\ IF Len(q) >= maxsize
          THEN /\ backoff' = Min(BackoffCap, backoff + BackoffStep)
               /\ fails' = fails + 1
               /\ starts' = <<>>
               /\ fpc' = "backoff"
               /\ UNCHANGED <<q, lastPut, putsSinceGet>>
          ELSE /\ q' = Append(q, f_frame)
               /\ lastPut' = f_frame
               /\ putsSinceGet' = putsSinceGet + 1
               /\ backoff' = backoff
               /\ fpc' = "loop"
               /\ UNCHANGED <<fails, starts>>
    /\ UNCHANGED <<argVars, getVars, quitVars, paced, stop_evt, t_next, f_frame, clock, cpc, m_frame,
                   attempts, lastDecoded, lastSleep>>
    /\ UNCHANGED recVars

F_Put ==
    /\ Alive
    /\ fpc = "put"
    /\ IF Len(q) >= maxsize
          THEN /\ backoff' = Min(BackoffCap, backoff + BackoffStep)
               /\ fails' = fails + 1
               /\ starts' = <<>>
               /\ fpc' = "backoff"
               /\ UNCHANGED <<q, lastPut, putsSinceGet>>
          ELSE /\ q' = Append(q, f_frame)
               /\ lastPut' = f_frame
               /\ putsSinceGet' = putsSinceGet + 1
               /\ backoff' = 0
               /\ fpc' = "loop"
               /\ UNCHANGED <<fails, starts>>
    /\ UNCHANGED <<argVars, getVars, quitVars, paced, stop_evt, t_next, f_frame, clock, cpc, m_frame,
                   attempts, lastDecoded, lastSleep>>
    /\ UNCHANGED recVars

\* fetcher, lines 52-60: the publish, drain then insert
F_PublishAppend ==
    /\ Alive
    /\ fpc = "drain"
    /\ q' = Append(q, f_frame)
    /\ lastPut' = f_frame
    /\ putsSinceGet' = putsSinceGet + 1
    /\ backoff' = 0
    /\ fpc' = "loop"
    /\ UNCHANGED <<argVars, getVars, quitVars, paced, stop_evt, t_next, f_frame, clock, cpc, m_frame,
                   attempts, lastDecoded, fails, lastSleep, starts>>
    /\ UNCHANGED recVars

F_Publish == F_Drain \/ F_Put

\* fetcher, line 64: time.sleep(backoff)
F_BackoffThenGrow ==
    /\ Alive
    /\ fpc = "backoff"
    /\ clock' = clock + backoff
    /\ lastSleep' = backoff
    /\ backoff' = Min(BackoffCap, backoff + BackoffStep)
    /\ fpc' = "loop"
    /\ UNCHANGED <<argVars, getVars, quitVars, paced, q, stop_evt, t_next, f_frame, cpc, m_frame,
                   attempts, lastDecoded, lastPut, putsSinceGet, fails, starts>>
    /\ UNCHANGED recVars

F_Backoff ==
    /\ Alive
    /\ fpc = "backoff"
    /\ clock' = clock + backoff
    /\ lastSleep' = backoff
    /\ fpc' = "loop"
    /\ UNCHANGED <<argVars, getVars, quitVars, paced, q, stop_evt, t_next, backoff, f_frame, cpc, m_frame,
                   attempts, lastDecoded, lastPut, putsSinceGet, fails, starts>>
    /\ UNCHANGED recVars

\* main, lines 90-109: q.get(timeout=0.2), then show the frame if there is one.
\* With the queue empty the wait may end with queue.Empty.
M_GetPeek ==
    /\ cpc = "get"
    /\ IF q # <<>>
          THEN /\ m_frame' = Head(q)
               /\ q' = q
          ELSE /\ m_frame' = 0
               /\ q' = q
    /\ putsSinceGet' = 0
    /\ putsAtGet' = putsSinceGet
    /\ putAtGet' = lastPut
    /\ decodedAtGet' = lastDecoded
    /\ publishingAtGet' = (fpc \in {"drain", "put"})
    /\ prevGot' = Max(prevGot, m_frame)
    /\ cpc' = "key"
    /\ UNCHANGED <<argVars, quitVars, paced, stop_evt, fpc, t_next, backoff, f_frame, clock, attempts,
                   lastDecoded, lastPut, fails, lastSleep, starts>>
    /\ UNCHANGED recVars

M_Get ==
    /\ cpc = "get"
    /\ IF q # <<>>
          THEN /\ m_frame' = Head(q)
               /\ q' = Tail(q)
          ELSE /\ m_frame' = 0
               /\ q' = q
    /\ putsSinceGet' = 0
    /\ putsAtGet' = putsSinceGet
    /\ putAtGet' = lastPut
    /\ decodedAtGet' = lastDecoded
    /\ publishingAtGet' = (fpc \in {"drain", "put"})
    /\ prevGot' = Max(prevGot, m_frame)
    /\ cpc' = "key"
    /\ UNCHANGED <<argVars, quitVars, paced, stop_evt, fpc, t_next, backoff, f_frame, clock, attempts,
                   lastDecoded, lastPut, fails, lastSleep, starts>>
    /\ UNCHANGED recVars

\* what cv2.waitKey(1) & 0xFF can be: 'q', ESC, or anything else (255 for no key)
Keys == {"q", "esc", "other"}

\* main, lines 112-114: cv2.waitKey(1); 'q' or ESC leaves the loop
M_Key ==
    /\ cpc = "key"
    /\ \E k \in Keys :
          /\ key' = k
          /\ cpc' = IF k \in {"q", "esc"} THEN "finally" ELSE "get"
    /\ UNCHANGED <<argVars, getVars, stopAt, paced, q, stop_evt, fpc, t_next, backoff, f_frame, clock,
                   m_frame, attempts, lastDecoded, lastPut, putsSinceGet, fails,
                   lastSleep, starts>>
    /\ UNCHANGED recVars

\* main, line 117: stop_evt.set()
M_Stop ==
    /\ cpc = "finally"
    /\ stop_evt' = TRUE
    /\ stopAt' = clock
    /\ cpc' = "join"
    /\ UNCHANGED <<argVars, getVars, key, paced, q, fpc, t_next, backoff, f_frame, clock, m_frame,
                   attempts, lastDecoded, lastPut, putsSinceGet, fails, lastSleep,
                   starts>>
    /\ UNCHANGED recVars

\* main, lines 118-119: t.join(timeout=1.0) returns when the fetcher has ended
\* or the second is over; then the windows are destroyed and main returns
M_Join ==
    /\ cpc = "join"
    /\ cpc' = "done"
    /\ UNCHANGED <<argVars, getVars, quitVars, paced, q, stop_evt, fpc, t_next, backoff, f_frame, clock,
                   m_frame, attempts, lastDecoded, lastPut, putsSinceGet, fails,
                   lastSleep, starts>>
    /\ UNCHANGED recVars

(***************************************************************************)
(* The two programs are run separately: each specification runs one of     *)
(* them and leaves the other where it starts.  The live viewer is explored *)
(* twice with its clock: SpecLive follows the queue through a few fetches  *)
(* under every interleaving, SpecPacer follows the fetcher's clock through *)
(* a long run of fetches.  SpecFair, further down, follows it without the  *)
(* clock through runs that never end.                                      *)
(***************************************************************************)
vars == <<recVars, liveVars>>

RecInit ==
    /\ \E fps \in {1, 2}, seconds \in 0..MaxHalfSeconds, resize_arg \in ResizeArgs :
          RecStart(fps, seconds, resize_arg)
    /\ LiveStart(2500)

NextRec == R_FetchFirst \/ R_DetermineSize \/ R_OpenWriter \/ R_Tick \/ R_Release

SpecRec == RecInit /\ [][NextRec]_vars

LiveInit ==
    /\ \E fps10 \in TargetFps : LiveStart(fps10)
    /\ RecStart(1, 0, <<>>)

NextLive ==
    \/ F_Check(MaxLiveAttempts) \/ F_Pace \/ F_Fetch(MaxLiveFrames)
    \/ F_Publish \/ F_Backoff
    \/ M_Get \/ M_Key \/ M_Stop \/ M_Join

SpecLive == LiveInit /\ [][NextLive]_vars

NextPacer ==
    \/ F_Check(MaxPacerAttempts) \/ F_Pace \/ F_Fetch(MaxPacerFrames)
    \/ F_Publish \/ F_Backoff
    \/ M_Get \/ M_Key \/ M_Stop \/ M_Join

PacerInit ==
    /\ LiveStart(2500)
    /\ RecStart(1, 0, <<>>)

SpecPacer == PacerInit /\ [][NextPacer]_vars

(***************************************************************************)
(* The live viewer without its clock, for the runs that never end.  The    *)
(* clock, t_next and the numbering of the frames grow for ever, so the     *)
(* steps of the fetcher that read or write them are given once more with   *)
(* the times left out: a test of the clock may come out either way, a      *)
(* sleep ends, every decoded frame is frame 1 (the camera looks at a still *)
(* scene) and the histories stay as they are.  The queue, the backoff and  *)
(* the positions of the two threads are as in the code; the drain and      *)
(* main's steps are the same actions as above.                             *)
(***************************************************************************)
\* the clock, and the histories the fetcher writes
timeVars == <<clock, t_next, attempts, lastDecoded, lastPut, putsSinceGet, fails,
              lastSleep, starts, paced>>

\* fetcher, lines 36-42: the loop test and the pacing test
F_CheckUntimed ==
    /\ Alive
    /\ fpc = "loop"
    /\ IF stop_evt
          THEN fpc' = "stopped"
          ELSE \E due \in BOOLEAN : fpc' = IF due THEN "fetch" ELSE "pace"
    /\ UNCHANGED <<argVars, getVars, quitVars, timeVars, q, stop_evt, backoff, f_frame,
                   cpc, m_frame>>
    /\ UNCHANGED recVars

\* fetcher, lines 40-41: the pacing sleep ends
F_PaceUntimed ==
    /\ Alive
    /\ fpc = "pace"
    /\ fpc' = "loop"
    /\ UNCHANGED <<argVars, getVars, quitVars, timeVars, q, stop_evt, backoff, f_frame,
                   cpc, m_frame>>
    /\ UNCHANGED recVars

\* fetcher, lines 44-50 and 61-63: the GET and the decode
F_FetchUntimed ==
    /\ Alive
    /\ fpc = "fetch"
    /\ \E outcome \in FetchOutcomes :
          IF outcome = "ok"
             THEN /\ f_frame' = 1
                  /\ fpc' = "drain"
                  /\ UNCHANGED backoff
             ELSE /\ f_frame' = IF outcome = "decode_null" THEN 0 ELSE f_frame
                  /\ backoff' = Min(BackoffCap, backoff + BackoffStep)
                  /\ fpc' = "backoff"
    /\ UNCHANGED <<argVars, getVars, quitVars, timeVars, q, stop_evt, cpc, m_frame>>
    /\ UNCHANGED recVars

\* fetcher, lines 59-63: out_q.put_nowait(frame); backoff = 0.0 -- or queue.Full
F_PutUntimed ==
    /\ Alive
    /\ fpc = "put"
    /\ IF Len(q) >= maxsize
          THEN /\ backoff' = Min(BackoffCap, backoff + BackoffStep)
               /\ fpc' = "backoff"
               /\ UNCHANGED q
          ELSE /\ q' = Append(q, f_frame)
               /\ backoff' = 0
               /\ fpc' = "loop"
    /\ UNCHANGED <<argVars, getVars, quitVars, timeVars, stop_evt, f_frame, cpc, m_frame>>
    /\ UNCHANGED recVars

\* fetcher, line 64: the backoff sleep ends
F_BackoffUntimed ==
    /\ Alive
    /\ fpc = "backoff"
    /\ fpc' = "loop"
    /\ UNCHANGED <<argVars, getVars, quitVars, timeVars, q, stop_evt, backoff, f_frame,
                   cpc, m_frame>>
    /\ UNCHANGED recVars

\* one step of the fetcher thread, and one of main's loop
FetcherUntimed ==
    \/ F_CheckUntimed \/ F_PaceUntimed \/ F_FetchUntimed
    \/ F_Drain \/ F_PutUntimed \/ F_BackoffUntimed

MainLoop == M_Get \/ M_Key

NextFair == FetcherUntimed \/ MainLoop \/ M_Stop \/ M_Join

FairInit ==
    /\ LiveStart(2500)
    /\ RecStart(1, 0, <<>>)

\* both threads are scheduled again and again: a step of the fetcher that stays
\* possible is taken, and so is a step of main's loop
SpecFair ==
    /\ FairInit
    /\ [][NextFair]_vars
    /\ WF_vars(FetcherUntimed)
    /\ WF_vars(MainLoop)

(***************************************************************************)
(*                    PROPERTIES OF THE LIVE VIEWER                        *)
(***************************************************************************)
\* the fetcher is between a decode and the put of its frame
Publishing == fpc \in {"drain", "put"}

C6_BackoffGrowthAndReset ==
    /\ backoff >= 0 /\ backoff <= BackoffCap
    /\ ~Publishing => backoff = Min(BackoffCap, BackoffStep * fails)
    /\ (fails >= 1 /\ fpc # "backoff") => lastSleep = Min(BackoffCap, BackoffStep * fails)

\* a frame was put, then eleven fetches in a row failed: the sleep is capped
C6_Witness ==
    /\ lastPut >= 1
    /\ fails = 11
    /\ fpc = "loop"
    /\ lastSleep = BackoffCap
    /\ BackoffStep * fails > BackoffCap

\* C7: the queue between fetcher and main never holds more than one frame.
C7_SingleSlot ==
    Len(q) <= 1

\* the second frame has replaced the first, which main never took
C7_Witness ==
    /\ q = <<2>>
    /\ putsSinceGet = 2

\* C8 (as claimed): a frame main's get returns is the newest frame decoded by
\* the time of the get.
C8_NewestDecoded ==
    m_frame # 0 => m_frame = decodedAtGet

\* C8 (amended): a frame main's get returns is the newest frame put by the time
\* of the get; it is older than the newest decoded frame only while that frame
\* is between its decode and its put, and then it is the one before it.
C8_NewestPut ==
    m_frame # 0 =>
        /\ m_frame = putAtGet
        /\ \/ m_frame = decodedAtGet
           \/ publishingAtGet /\ m_frame = decodedAtGet - 1

\* main took frame 1 while frame 2 was decoded and not yet put
C8_Witness ==
    /\ cpc = "key"
    /\ m_frame = 1
    /\ decodedAtGet = 2
    /\ publishingAtGet

\* C9 (as claimed, the upper half): among the attempts of a stretch without a
\* failure, any window from one attempt's start to a later one's holds at most
\* R*W + 1 attempts: the attempts i..j take at least (j - i) periods.
C9_AtMostRatePlusOne ==
    fpc # "fetch" =>
        \A i \in DOMAIN starts : \A j \in DOMAIN starts :
            i < j => (j - i) * period <= starts[j] - starts[i]

\* one step of the fetcher thread, in the long run
FetcherStep ==
    \/ F_Check(MaxPacerAttempts) \/ F_Pace \/ F_Fetch(MaxPacerFrames)
    \/ F_Publish \/ F_Backoff

\* C11: whatever the fetches give and however often main's get comes back
\* empty, the fetcher is in its terminal state only after stop_evt was set, and
\* stop_evt is set only after main left its loop, which it leaves only on 'q' or
\* ESC; until then the fetcher always has a next step (as far as the
\* exploration goes) and main is at its get or at its key test.
C11_OnlyStopEnds ==
    /\ fpc = "stopped" => stop_evt
    /\ stop_evt <=> cpc \in {"join", "done"}
    /\ cpc \in {"finally", "join", "done"} <=> key \in {"q", "esc"}
    /\ (Alive /\ fpc # "stopped" /\ attempts < MaxPacerAttempts) => ENABLED FetcherStep
    /\ cpc \in {"get", "key"} => ENABLED (M_Get \/ M_Key)

\* eleven fetches in a row failed and the queue never held a frame, so every get
\* came back empty: both loops are still running
C11_Witness ==
    /\ fails >= 11
    /\ lastPut = 0
    /\ cpc = "key" /\ m_frame = 0
    /\ fpc = "loop" /\ ~stop_evt

\* C12 (as claimed): from the moment stop_evt is set until the fetcher leaves its
\* loop no more than one pacing sleep (2 ms) goes by, wherever the fetcher was:
\* the clock, which only the fetcher's GETs and sleeps advance, is never more
\* than PaceQuantum past the moment of the stop.
C12_StopLatency ==
    stop_evt => clock - stopAt <= PaceQuantum

\* C13 (as claimed): a publish replaces the occupant of the queue atomically for
\* main's get: a get made while a publish is under way, with a frame put since
\* main's previous get (so that the queue held a frame main had not taken when
\* the publish began), returns a frame; it never finds the queue emptied and
\* not yet refilled.
C13_AtomicPublish ==
    (cpc = "key" /\ publishingAtGet /\ putsAtGet >= 1) => m_frame # 0

\* C14 (as claimed): when the fetcher has fallen behind t_next only the next GET
\* starts at once, and pacing resumes after it: a GET that starts with no pacing
\* sleep since the GET before it (and no failure in between) starts at least one
\* period after that GET started, that is, only because that GET ran long.
C14_NoCatchUpBurst ==
    (fpc = "fetch" /\ Len(starts) >= 2 /\ ~paced) =>
        starts[Len(starts)] - starts[Len(starts) - 1] >= period

\* C15 (as claimed): on a failure the fetcher sleeps for the backoff it held
\* before the failure and grows it afterwards: the sleep of the k-th failure in
\* a row is the backoff after k-1 failures.
C15_SleepThenGrow ==
    (fails >= 1 /\ fpc # "backoff") =>
        lastSleep = Min(BackoffCap, BackoffStep * (fails - 1))

\* C15 (amended): on a failure the fetcher grows the backoff first and then
\* sleeps for the grown value, which it keeps: when the sleep of the k-th failure
\* in a row begins the backoff is already min(0.5 s, 0.05 s * k), and the sleep
\* lasts exactly that long; the first failure sleeps 0.05 s, not 0.
C15_GrowThenSleep ==
    /\ fpc = "backoff" => (fails >= 1 /\ backoff = Min(BackoffCap, BackoffStep * fails))
    /\ (fails >= 1 /\ fpc # "backoff") =>
          /\ lastSleep = backoff
          /\ lastSleep = Min(BackoffCap, BackoffStep * fails)
          /\ lastSleep >= BackoffStep

\* the sleep of the second failure in a row is over: it lasted 0.1 s
C15_Witness ==
    /\ fails = 2
    /\ fpc = "loop"
    /\ lastSleep = 2 * BackoffStep

\* main's get takes the frame at the head of the queue
MainTook ==
    /\ cpc = "get" /\ cpc' = "key"
    /\ q # <<>>
    /\ q' = Tail(q)
    /\ m_frame' = Head(q)

\* C16: an iteration of the fetcher whose fetch fails does not touch the queue:
\* from the start of a GET to the end of the backoff sleep that follows its
\* failure (and in any step that ends in the failure branch) the queue changes
\* only by main taking its frame.
C16_FailureKeepsBuffer ==
    [][(fpc \notin {"drain", "put"} \/ fpc' = "backoff") => (q' = q \/ MainTook)]_vars

\* frame 1 was put and not taken, then two fetches failed and their backoff
\* sleeps are over: frame 1 is still in the queue
C16_Witness ==
    /\ fails = 2
    /\ fpc = "loop"
    /\ lastSleep = 2 * BackoffStep
    /\ lastPut = 1 /\ putsSinceGet = 1
    /\ q = <<1>>

\* C17: a GET starts only when the clock has reached t_next, and t_next moves by
\* exactly one period per GET started, whether it succeeds or fails, and at no
\* other time: t_next is the fetcher's start time (0) plus one period per
\* attempt, through every pacing sleep and backoff sleep, and the latest attempt
\* began at or after the t_next of before its advance.
C17_PacerInvariant ==
    /\ t_next = attempts * period
    /\ fpc = "fetch" =>
          /\ starts # <<>>
          /\ starts[Len(starts)] >= t_next - period
    /\ fpc = "pace" => clock < t_next

\* the third GET starts late, a failure and its backoff sleep behind it: t_next
\* is three periods on from the start, and behind the clock
C17_Witness ==
    /\ fpc = "fetch"
    /\ attempts = 3
    /\ lastSleep > 0
    /\ starts[Len(starts)] > t_next - period
    /\ t_next = 3 * period
    /\ t_next < clock

\* C18: whatever main does in between, the put that follows the drain finds room
\* in the queue, so it never raises queue.Full: every decoded frame is put (outside
\* the publish the newest frame put is the newest frame decoded), the failures
\* counted are failures of the fetch alone, and once a frame is put the backoff
\* is 0 until the next failure.
C18_PublishCannotFail ==
    /\ fpc = "put" => Len(q) < maxsize
    /\ ~Publishing => lastPut = lastDecoded
    /\ (lastDecoded >= 1 /\ fails = 0 /\ ~Publishing) => backoff = 0

\* main's get ran while frame 2 was being published, after an earlier failure:
\* frame 2 was put all the same and the backoff is back to 0
C18_Witness ==
    /\ fpc = "loop"
    /\ cpc = "key" /\ publishingAtGet /\ decodedAtGet = 2
    /\ lastPut = 2 /\ q = <<2>>
    /\ lastSleep > 0 /\ backoff = 0

\* C19: the frames main's gets return come in the order they were fetched and
\* each at most once: a frame a get returns is newer than every frame returned
\* before it, and a frame waiting in the queue is newer than every frame
\* returned so far; frames may be skipped.
C19_InOrderAtMostOnce ==
    /\ m_frame # 0 => m_frame > prevGot
    /\ q # <<>> => Head(q) > Max(prevGot, m_frame)
    /\ Max(prevGot, m_frame) <= lastPut

\* main received frame 1 and then frame 3: frame 2 was replaced before main
\* came back
C19_Witness ==
    /\ cpc = "key"
    /\ prevGot = 1
    /\ m_frame = 3

\* C20 (as claimed): when fetches succeed again and again and main never leaves
\* its loop, main eventually receives a frame, the two threads being scheduled
\* with weak fairness.
C20_ConsumerProgress ==
    ([]<>(fpc = "drain") /\ [](cpc \in {"get", "key"})) => <>(m_frame # 0)

(***************************************************************************)
(*                     PROPERTIES OF THE RECORDER                          *)
(***************************************************************************)
\* N = round(F * D), from the arguments
FramesAsked == RoundHalfEven(a_seconds * a_fps, 2)

\* the index of the most recent fetch up to tick k that returned a frame
LastOk(k) == CHOOSE j \in 1..k :
                 /\ fetched[j].kind = "frame"
                 /\ \A m \in (j + 1)..k : fetched[m].kind # "frame"

RECURSIVE LagOf(_, _)
\* the lag behind the schedule after ticks that took ds, for a step of ival:
\* each tick adds its duration and gives back one step, and a sleep removes
\* what is left of an advance
LagOf(ds, ival) ==
    IF ds = <<>> THEN 0
    ELSE Max(0, LagOf(SubSeq(ds, 1, Len(ds) - 1), ival) + ds[Len(ds)] - ival)

AllFast == \A k \in DOMAIN durs : durs[k] <= FrameInterval(a_fps)

\* C2 (as claimed): once the writer is released, exactly N = round(F*D) frames
\* have been written, for every N >= 0 and every sequence of fetch outcomes.
C2_ExactlyNFrames ==
    writer = "released" => Len(written) = FramesAsked

\* C3: every written frame is the frame of the most recent successful fetch up
\* to its tick, at the session's output size, and last_good is that frame too:
\* it changes only on a tick whose fetch succeeded.
C3_FreezeCorrect ==
    /\ \A k \in DOMAIN written :
          written[k] = resize(fetched[LastOk(k)], frame_size)
    /\ (rpc = "loop" /\ written # <<>>) =>
          last_good = resize(fetched[LastOk(Len(written))], frame_size)
    /\ Len(written) <= Len(fetched)

\* outcomes [Success(A), Failure, Failure, Success(B)] were written as [A, A, A, B]
C3_Witness ==
    /\ Len(written) = 4
    /\ fetched[1].kind = "frame" /\ fetched[2] = None
    /\ fetched[3] = None /\ fetched[4].kind = "frame"
    /\ written[1].id = 0 /\ written[2].id = 0 /\ written[3].id = 0
    /\ written[4].id = 3
    /\ fetched[4].size # frame_size

\* C4: when the first fetch fails the session is over at once with a diagnostic
\* (the ERROR line, or the traceback of an exception fetch_jpeg let through),
\* no VideoWriter was ever created, nothing was written, and fetch_jpeg ran once.
C4_FirstFramePrecondition ==
    (Len(fetched) >= 1 /\ fetched[1].kind # "frame") =>
        /\ Len(fetched) = 1
        /\ rpc \in {"done", "crashed"}
        /\ fetched[1] = None => (rpc = "done" /\ diag = "first_fetch")
        /\ fetched[1] = Raised => (rpc = "crashed" /\ diag = "traceback")
        /\ writer = "none"
        /\ written = <<>>
        /\ elapsed = -1

C4_Witness ==
    /\ Len(fetched) = 1 /\ fetched[1] = None
    /\ rpc = "done" /\ diag = "first_fetch" /\ writer = "none"

\* C5 (as claimed): no fetch-and-decode step lets an exception out; every
\* failure comes back to the caller as a value.
C5_NeverRaises ==
    \A k \in DOMAIN fetched : fetched[k].kind # "raise"

\* C10 (as claimed): at the end of every tick the loop is at most one
\* frame_interval behind its schedule, and the elapsed time at release is within
\* one frame_interval of N/fps, whatever the fetch durations.
C10_LagWithinOneStep ==
    /\ rpc = "loop" => perf - next_tick <= FrameInterval(a_fps)
    /\ writer = "released" =>
          /\ elapsed - FramesAsked * FrameInterval(a_fps) <= FrameInterval(a_fps)
          /\ FramesAsked * FrameInterval(a_fps) - elapsed <= FrameInterval(a_fps)

\* C10 (amended): the loop is never ahead of its schedule; its lag at the end of
\* a tick is max(0, lag before + the tick's duration - frame_interval); the
\* elapsed time at release is the N-1 steps after frame 0 plus the final lag;
\* so when no tick takes longer than frame_interval the lag is 0 and the
\* elapsed time is within one frame_interval of N/fps.
C10_FixedStep ==
    /\ rpc = "loop" =>
          /\ perf - next_tick = LagOf(durs, FrameInterval(a_fps))
          /\ AllFast => perf = next_tick
    /\ writer = "released" =>
          /\ elapsed = (Max(FramesAsked, 1) - 1) * FrameInterval(a_fps)
                          + LagOf(durs, FrameInterval(a_fps))
          /\ AllFast =>
                /\ elapsed - FramesAsked * FrameInterval(a_fps) <= FrameInterval(a_fps)
                /\ FramesAsked * FrameInterval(a_fps) - elapsed <= FrameInterval(a_fps)

\* a session with slow fetches that recovered part of its lag on fast ticks
C10_Witness ==
    /\ writer = "released"
    /\ Len(durs) >= 3
    /\ ~AllFast
    /\ \E k \in DOMAIN durs : durs[k] < FrameInterval(a_fps)
    /\ LagOf(durs, FrameInterval(a_fps)) > FrameInterval(a_fps)


=============================================================================
